---- MODULE Spec2Model ----
(***************************************************************************)
(* TimeGuard attendance tracker: the mock backend over localStorage        *)
(* (services/api) and the App component that drives it (login, logout,     *)
(* check-in/check-out toggle, admin user management, start-up load).       *)
(*                                                                         *)
(* Every API function awaits simulateDelay() and then runs to completion   *)
(* without a further await, so one "...Returns" action is the timer        *)
(* callback of one call: the read-modify-write on localStorage followed by *)
(* the caller's continuation up to its next await.  Several browser tabs   *)
(* (Sessions) share localStorage and each has its own React state and      *)
(* sessionStorage.  The clock advances by Tick; a toggle's api call returns *)
(* at a later clock reading than the one it was made at.                   *)
(***************************************************************************)
EXTENDS Integers, Sequences, FiniteSets, TLC

VARIABLES
    usersStore,     \* localStorage['timeguard_users'], parsed
    logsStore,      \* localStorage['timeguard_logs'], parsed
    now,            \* Date.now()
    loggedInUser,   \* per tab: React state loggedInUser
    sessionStore,   \* per tab: sessionStorage['timeguard_session'], parsed
    isProcessing,   \* per tab: React state isProcessing
    isLoading,      \* per tab: React state isLoading
    loginError,     \* per tab: React state loginError
    users,          \* per tab: React state users
    logs,           \* per tab: React state logs
    toggles,        \* per tab: activations of handleCheckIn past the guard
    result,         \* per tab: value returned by the last handleCheckIn
    loginCall,      \* per tab: handleLogin awaiting api.login
    loadCall,       \* per tab: loadData awaiting Promise.all
    adminCalls,     \* per tab: admin handlers awaiting their api call
    adminOutcome,   \* per tab: how the last admin handler settled
    lastToggle,     \* per tab: history, the last successful toggle
    appended        \* history: the entries api.addLog returned, in order

vars == <<usersStore, logsStore, now, loggedInUser, sessionStore, isProcessing,
          isLoading, loginError, users, logs, toggles, result, loginCall,
          loadCall, adminCalls, adminOutcome, lastToggle, appended>>

storeVars == <<usersStore, logsStore>>
reactVars == <<loggedInUser, sessionStore, isProcessing, isLoading,
               loginError, users, logs>>
histVars == <<lastToggle, appended>>

-----------------------------------------------------------------------------
(* Bounds *)

MaxClock == 5
MaxLogs == 2
MaxAdminCalls == 1

Sessions == {"s1", "s2"}

-----------------------------------------------------------------------------
(* Values *)

Null == [null |-> TRUE]
Undefined == "undefined"
NoError == "null"
NoUser == Null
NoCall == Null
NoResult == [success |-> FALSE, message |-> "not called"]

\* A Date object and its JSON form (toISOString); JSON.parse leaves the
\* string, new Date(string) rebuilds the object.
DateAt(t) == [date |-> t]
toJSON(v) == IF "date" \in DOMAIN v THEN [iso |-> v.date] ELSE v
newDate(v) == IF "iso" \in DOMAIN v THEN [date |-> v.iso]
              ELSE IF "date" \in DOMAIN v THEN v ELSE [date |-> 0]
TimeOf(v) == IF "iso" \in DOMAIN v THEN v.iso
             ELSE IF "date" \in DOMAIN v THEN v.date ELSE 0

\* JSON.parse(JSON.stringify(user)): a Date lastCheckIn becomes a string.
stringifyUser(u) ==
    [f \in DOMAIN u |-> IF f = "lastCheckIn" THEN toJSON(u[f]) ELSE u[f]]

\* JSON.parse(JSON.stringify(log)): the timestamp becomes a string and an
\* undefined locationError is dropped.
stringifyLog(l) ==
    [f \in {g \in DOMAIN l : ~(g = "locationError" /\ l[g] = Undefined)} |->
        IF f = "timestamp" THEN toJSON(l[f]) ELSE l[f]]

\* JSON.parse(JSON.stringify(collection)), as setItem followed by getItem.
stringifyUsers(us) == [i \in 1..Len(us) |-> stringifyUser(us[i])]
stringifyLogs(ls) == [i \in 1..Len(ls) |-> stringifyLog(ls[i])]

SeedUser(id, name, username, password, role) ==
    [id |-> id, name |-> name, username |-> username, password |-> password,
     role |-> role, status |-> "Checked Out", lastCheckIn |-> Null]

initialUsers ==
    << SeedUser("admin-1", "Admin User", "admin", "admin", "Admin"),
       SeedUser("emp-1", "Alice", "alice", "alice123", "Employee"),
       SeedUser("emp-2", "Bob", "bob", "bob123", "Employee"),
       SeedUser("emp-3", "Charlie", "charlie", "charlie123", "Employee") >>

-----------------------------------------------------------------------------
(* services/api: each operator is the body of the function after its delay. *)
(* err is the thrown message or Null, store the collection written back,    *)
(* value the resolved value.                                                *)

\* Faulty variant: the password is left in place.
keepPassword(user) == user

stripPassword(user) == [f \in DOMAIN user \ {"password"} |-> user[f]]

\* Array.prototype.find on one field: the first match, or nothing.
find(sq, field, v) ==
    IF \E i \in 1..Len(sq) : sq[i][field] = v
    THEN sq[CHOOSE i \in 1..Len(sq) :
                sq[i][field] = v /\ \A j \in 1..(i - 1) : sq[j][field] # v]
    ELSE Null

\* Faulty variant: any stored user with that username and password matches.
loginAnyMatch(stored, username, password) ==
    IF \E i \in 1..Len(stored) :
           stored[i].username = username /\ stored[i].password = password
    THEN [err |-> NoError,
          value |-> stripPassword(stored[CHOOSE i \in 1..Len(stored) :
                        stored[i].username = username /\ stored[i].password = password])]
    ELSE [err |-> "Invalid username or password.", value |-> Null]

login(stored, username, password) ==
    LET user == find(stored, "username", username)
    IN IF user # Null /\ user.password = password
       THEN [err |-> NoError, value |-> stripPassword(user)]
       ELSE [err |-> "Invalid username or password.", value |-> Null]

getUsers(stored) == [i \in 1..Len(stored) |-> stripPassword(stored[i])]

getLogsEntry(log) == [log EXCEPT !.timestamp = newDate(@)]
getLogs(stored) == [i \in 1..Len(stored) |-> getLogsEntry(stored[i])]

\* Faulty variant: no duplicate check.
addUserUnchecked(stored, newUser) ==
    [err |-> NoError,
     store |-> stringifyUsers(Append(stored, newUser)),
     value |-> stripPassword(newUser)]

\* Faulty variant: the user is added to the seed list, not to what is stored.
addUserToSeed(stored, newUser) ==
    IF \E i \in 1..Len(stored) : stored[i].username = newUser.username
    THEN [err |-> "Username already exists.", store |-> stored, value |-> Null]
    ELSE [err |-> NoError,
          store |-> stringifyUsers(Append(initialUsers, newUser)),
          value |-> stripPassword(newUser)]

addUser(stored, newUser) ==
    IF \E i \in 1..Len(stored) : stored[i].username = newUser.username
    THEN [err |-> "Username already exists.", store |-> stored, value |-> Null]
    ELSE [err |-> NoError,
          store |-> stringifyUsers(Append(stored, newUser)),
          value |-> stripPassword(newUser)]

\* Faulty variant: a blank password field overwrites the stored password.
updatePasswordBlank(u, updatedUser) ==
    IF "password" \in DOMAIN updatedUser
    THEN updatedUser.password
    ELSE u.password

updatePassword(u, updatedUser) ==
    IF "password" \in DOMAIN updatedUser /\ updatedUser.password # ""
    THEN updatedUser.password
    ELSE u.password

\* Faulty variant: the spread is the other way round, stored fields win.
mergeUserKeepStored(u, updatedUser) ==
    [f \in DOMAIN u \cup DOMAIN updatedUser \cup {"password"} |->
        IF f = "password" THEN updatePassword(u, updatedUser)
        ELSE IF f \in DOMAIN u THEN u[f] ELSE updatedUser[f]]

mergeUser(u, updatedUser) ==
    [f \in DOMAIN u \cup DOMAIN updatedUser \cup {"password"} |->
        IF f = "password" THEN updatePassword(u, updatedUser)
        ELSE IF f \in DOMAIN updatedUser THEN updatedUser[f] ELSE u[f]]

\* Faulty variant: the record found before the merge is returned.
updateUserReturnsOld(stored, updatedUser) ==
    IF ~\E i \in 1..Len(stored) : stored[i].id = updatedUser.id
    THEN [err |-> "User not found.", store |-> stored, value |-> Null]
    ELSE [err |-> NoError,
          store |-> stringifyUsers([i \in 1..Len(stored) |->
                       IF stored[i].id = updatedUser.id
                       THEN mergeUser(stored[i], updatedUser)
                       ELSE stored[i]]),
          value |-> stripPassword(find(stored, "id", updatedUser.id))]

\* Faulty variant: a user that is not stored is added instead of refused.
updateUserUpsert(stored, updatedUser) ==
    IF \E i \in 1..Len(stored) : stored[i].id = updatedUser.id
    THEN [err |-> NoError,
          store |-> stringifyUsers([i \in 1..Len(stored) |->
                       IF stored[i].id = updatedUser.id
                       THEN mergeUser(stored[i], updatedUser)
                       ELSE stored[i]]),
          value |-> stripPassword(updatedUser)]
    ELSE [err |-> NoError,
          store |-> stringifyUsers(Append(stored, updatedUser)),
          value |-> stripPassword(updatedUser)]

updateUser(stored, updatedUser) ==
    LET mapped == [i \in 1..Len(stored) |->
                      IF stored[i].id = updatedUser.id
                      THEN mergeUser(stored[i], updatedUser)
                      ELSE stored[i]]
    IN IF ~\E i \in 1..Len(stored) : stored[i].id = updatedUser.id
       THEN [err |-> "User not found.", store |-> stored, value |-> Null]
       ELSE [err |-> NoError,
             store |-> stringifyUsers(mapped),
             value |-> stripPassword(find(mapped, "id", updatedUser.id))]

deleteUser(stored, userId) == SelectSeq(stored, LAMBDA u : u.id # userId)

logId(t) == <<"log", t>>

\* Faulty variant: the entry is pushed to the end.
push(stored, entry) == Append(stored, entry)

\* Faulty variant: the entry replaces the stored entries.
unshiftOnly(stored, entry) == <<entry>>

unshift(stored, entry) == <<entry>> \o stored

\* Faulty variant: the entry is returned but the collection is not saved.
addLogNotSaved(stored, newLog, t) ==
    [store |-> stored,
     value |-> [f \in DOMAIN newLog \cup {"id"} |->
                   IF f = "id" THEN logId(t) ELSE newLog[f]]]

addLog(stored, newLog, t) ==
    LET logWithId == [f \in DOMAIN newLog \cup {"id"} |->
                         IF f = "id" THEN logId(t) ELSE newLog[f]]
    IN [store |-> stringifyLogs(unshift(stored, logWithId)),
        value |-> [logWithId EXCEPT !.timestamp = newDate(@)]]

-----------------------------------------------------------------------------
(* Inputs *)

Credentials ==
    { [username |-> "alice", password |-> "alice123"],
      [username |-> "alice", password |-> "wrong"] }
AliceCredentials == [username |-> "alice", password |-> "alice123"]
AdminCredentials == [username |-> "admin", password |-> "admin"]

\* What is typed into the Login form: each seeded employee's password with
\* either of two usernames, and a wrong password.
LoginCredentials ==
    { [username |-> "alice", password |-> "alice123"],
      [username |-> "alice", password |-> "wrong"],
      [username |-> "bob", password |-> "bob123"],
      [username |-> "bob", password |-> "alice123"] }

NewUser(id, name, username, password) ==
    [id |-> id, name |-> name, username |-> username, password |-> password,
     role |-> "Employee", status |-> "Checked Out", lastCheckIn |-> Null]

NewUsers ==
    { NewUser("emp-4", "Dave", "dave", "dave123"),
      NewUser("emp-5", "Dan", "dave", "dan123"),
      NewUser("emp-5", "Alice Two", "alice", "") }

\* Two new users with usernames nobody has, one for each tab to add.
DistinctNewUsers ==
    [s \in Sessions |->
        IF s = "s1" THEN NewUser("emp-4", "Dave", "dave", "dave123")
        ELSE NewUser("emp-5", "Erin", "erin", "erin123")]

EditableIds == {"emp-1"}
Unedited == "(unedited)"
Rename == [username |-> "bob", password |-> ""]
NewPassword == [username |-> Unedited, password |-> "pw2"]
Resubmit == [username |-> Unedited, password |-> ""]

IpOutcomes == {"203.0.113.7", "Unavailable"}
Position == [latitude |-> 10, longitude |-> 20]
GeoOutcomes ==
    { [location |-> Position, locationError |-> Undefined],
      [location |-> Null,
       locationError |-> "User denied the request for Geolocation."] }

-----------------------------------------------------------------------------
(* Initial state: first run, initializeData has seeded localStorage, every  *)
(* tab has just mounted App and loadData is awaiting its two reads.         *)

Mounted == [pc |-> "getUsers", loadedUsers |-> <<>>]

Init ==
    /\ usersStore = stringifyUsers(initialUsers)
    /\ logsStore = <<>>
    /\ now = 1
    /\ loggedInUser = [s \in Sessions |-> NoUser]
    /\ sessionStore = [s \in Sessions |-> Null]
    /\ isProcessing = [s \in Sessions |-> FALSE]
    /\ isLoading = [s \in Sessions |-> TRUE]
    /\ loginError = [s \in Sessions |-> NoError]
    /\ users = [s \in Sessions |-> <<>>]
    /\ logs = [s \in Sessions |-> <<>>]
    /\ toggles = [s \in Sessions |-> <<>>]
    /\ result = [s \in Sessions |-> NoResult]
    /\ loginCall = [s \in Sessions |-> NoCall]
    /\ loadCall = [s \in Sessions |-> Mounted]
    /\ adminCalls = [s \in Sessions |-> <<>>]
    /\ adminOutcome = [s \in Sessions |-> NoError]
    /\ lastToggle = [s \in Sessions |-> Null]
    /\ appended = <<>>

Tick ==
    /\ now < MaxClock
    /\ now' = now + 1
    /\ UNCHANGED <<storeVars, reactVars, toggles, result, loginCall,
                   loadCall, adminCalls, adminOutcome, histVars>>

-----------------------------------------------------------------------------
(* App: start-up load and session revalidation *)

\* A page (re)load of tab s: App mounts again with fresh React state, every
\* pending continuation of the old page is gone, sessionStorage survives.
Reload(s) ==
    /\ loggedInUser' = [loggedInUser EXCEPT ![s] = NoUser]
    /\ isProcessing' = [isProcessing EXCEPT ![s] = FALSE]
    /\ isLoading' = [isLoading EXCEPT ![s] = TRUE]
    /\ loginError' = [loginError EXCEPT ![s] = NoError]
    /\ users' = [users EXCEPT ![s] = <<>>]
    /\ logs' = [logs EXCEPT ![s] = <<>>]
    /\ toggles' = [toggles EXCEPT ![s] = <<>>]
    /\ result' = [result EXCEPT ![s] = NoResult]
    /\ loginCall' = [loginCall EXCEPT ![s] = NoCall]
    /\ loadCall' = [loadCall EXCEPT ![s] = Mounted]
    /\ adminCalls' = [adminCalls EXCEPT ![s] = <<>>]
    /\ adminOutcome' = [adminOutcome EXCEPT ![s] = NoError]
    /\ lastToggle' = [lastToggle EXCEPT ![s] = Null]
    /\ UNCHANGED <<storeVars, now, sessionStore, appended>>

loadGetUsersReturns(s) ==
    /\ loadCall[s].pc = "getUsers"
    /\ loadCall' = [loadCall EXCEPT ![s] =
                       [pc |-> "getLogs", loadedUsers |-> getUsers(usersStore)]]
    /\ UNCHANGED <<storeVars, now, reactVars, toggles, result, loginCall,
                   adminCalls, adminOutcome, histVars>>

\* Faulty variant: the stored session is restored without the check.
userExistsAlways(loadedUsers, parsedUser) == TRUE

userExists(loadedUsers, parsedUser) ==
    \E i \in 1..Len(loadedUsers) : loadedUsers[i].id = parsedUser.id

loadGetLogsReturns(s) ==
    /\ loadCall[s].pc = "getLogs"
    /\ LET loadedUsers == loadCall[s].loadedUsers
           loadedLogs == getLogs(logsStore)
           sessionUser == sessionStore[s]
       IN /\ users' = [users EXCEPT ![s] = loadedUsers]
          /\ logs' = [logs EXCEPT ![s] = loadedLogs]
          /\ IF sessionUser # Null
             THEN IF userExists(loadedUsers, sessionUser)
                  THEN /\ loggedInUser' = [loggedInUser EXCEPT ![s] = sessionUser]
                       /\ UNCHANGED sessionStore
                  ELSE /\ sessionStore' = [sessionStore EXCEPT ![s] = Null]
                       /\ UNCHANGED loggedInUser
             ELSE UNCHANGED <<loggedInUser, sessionStore>>
    /\ isLoading' = [isLoading EXCEPT ![s] = FALSE]
    /\ loadCall' = [loadCall EXCEPT ![s] = [pc |-> "done", loadedUsers |-> <<>>]]
    /\ UNCHANGED <<storeVars, now, isProcessing, loginError, toggles, result,
                   loginCall, adminCalls, adminOutcome, histVars>>

-----------------------------------------------------------------------------
(* App: login and logout *)

\* Login.handleSubmit -> handleLogin up to "await api.login".  The Login
\* form is rendered only when loading is over and nobody is logged in, and
\* isLoggingIn rejects a second submit.
handleLogin(s, cred) ==
    /\ ~isLoading[s]
    /\ loggedInUser[s] = NoUser
    /\ loginCall[s] = NoCall
    /\ loginError' = [loginError EXCEPT ![s] = NoError]
    /\ loginCall' = [loginCall EXCEPT ![s] = cred]
    /\ UNCHANGED <<storeVars, now, loggedInUser, sessionStore, isProcessing,
                   isLoading, users, logs, toggles, result, loadCall,
                   adminCalls, adminOutcome, histVars>>

loginReturns(s) ==
    /\ loginCall[s] # NoCall
    /\ LET r == login(usersStore, loginCall[s].username, loginCall[s].password)
       IN IF r.err = NoError
          THEN /\ loggedInUser' = [loggedInUser EXCEPT ![s] = r.value]
               /\ sessionStore' = [sessionStore EXCEPT ![s] = stringifyUser(r.value)]
               /\ UNCHANGED loginError
          ELSE /\ loginError' = [loginError EXCEPT ![s] = r.err]
               /\ UNCHANGED <<loggedInUser, sessionStore>>
    /\ loginCall' = [loginCall EXCEPT ![s] = NoCall]
    /\ UNCHANGED <<storeVars, now, isProcessing, isLoading, users, logs,
                   toggles, result, loadCall, adminCalls, adminOutcome, histVars>>

\* The Header with the logout button is rendered only for a logged-in user.
handleLogout(s) ==
    /\ ~isLoading[s]
    /\ loggedInUser[s] # NoUser
    /\ loggedInUser' = [loggedInUser EXCEPT ![s] = NoUser]
    /\ sessionStore' = [sessionStore EXCEPT ![s] = Null]
    /\ UNCHANGED <<storeVars, now, isProcessing, isLoading, loginError, users,
                   logs, toggles, result, loginCall, loadCall, adminCalls, adminOutcome,
                   histVars>>

-----------------------------------------------------------------------------
(* App: handleCheckIn, the check-in/check-out toggle *)

RemoveAt(sq, i) == [j \in 1..(Len(sq) - 1) |-> IF j < i THEN sq[j] ELSE sq[j + 1]]

\* Log entries still to be written by toggles past the guard.
PendingLogs(s) ==
    Cardinality({i \in 1..Len(toggles[s]) : toggles[s][i].pc # "updateUser"})
RECURSIVE SumOver(_, _)
SumOver(S, f) ==
    IF S = {} THEN 0
    ELSE LET x == CHOOSE y \in S : TRUE IN f[x] + SumOver(S \ {x}, f)
LogBudget ==
    Len(logsStore) + SumOver(Sessions, [s \in Sessions |-> PendingLogs(s)]) < MaxLogs

\* Faulty variant: the guard forgets the in-flight flag.
guardIgnoresFlag(processing, user) == user = NoUser

guardRejects(processing, user) == processing \/ user = NoUser

\* Faulty variant: the new status is always Checked In.
complementStuck(status) == "Checked In"

complement(status) ==
    IF status = "Checked In" THEN "Checked Out" ELSE "Checked In"

\* Faulty variant: every entry is an 'in' entry.
logTypeOfStuck(newStatus) == "in"

logTypeOf(newStatus) == IF newStatus = "Checked In" THEN "in" ELSE "out"

\* Lines 173-180: the guard, setIsProcessing(true), call getIpAddress().
\* The frame keeps the loggedInUser the closure captured.
handleCheckIn(s) ==
    IF guardRejects(isProcessing[s], loggedInUser[s])
    THEN /\ result' = [result EXCEPT ![s] =
                [success |-> FALSE,
                 message |-> "Another operation is in progress or user not logged in."]]
         /\ UNCHANGED <<storeVars, now, reactVars, toggles, loginCall,
                        loadCall, adminCalls, adminOutcome, histVars>>
    ELSE /\ LogBudget
         /\ isProcessing' = [isProcessing EXCEPT ![s] = TRUE]
         /\ toggles' = [toggles EXCEPT ![s] = Append(@,
                [pc |-> "getIpAddress", user |-> loggedInUser[s],
                 ip |-> "", newLog |-> Null, createdLog |-> Null,
                 updatedUser |-> Null, updatedAt |-> Null])]
         /\ UNCHANGED <<storeVars, now, loggedInUser, sessionStore, isLoading,
                        loginError, users, logs, result, loginCall, loadCall,
                        adminCalls, adminOutcome, histVars>>

\* getIpAddress resolves with the address, or with 'Unavailable' when the
\* fetch failed; then getGeolocation() is called.
checkInIpReturns(s, i, ip) ==
    /\ i \in 1..Len(toggles[s])
    /\ toggles[s][i].pc = "getIpAddress"
    /\ toggles' = [toggles EXCEPT ![s][i].pc = "getGeolocation",
                                  ![s][i].ip = ip]
    /\ UNCHANGED <<storeVars, now, reactVars, result, loginCall, loadCall,
                   adminCalls, adminOutcome, histVars>>

\* Faulty variant: the failure reason is not passed on.
newLogWithoutReason(user, ip, geo, t) ==
    [userId |-> user.id, userName |-> user.name, timestamp |-> DateAt(t),
     type |-> logTypeOf(complement(user.status)), ip |-> ip,
     location |-> geo.location, locationError |-> Undefined]

\* Lines 190-201: newStatus, logType and newLog.
newLogOf(user, ip, geo, t) ==
    [userId |-> user.id, userName |-> user.name, timestamp |-> DateAt(t),
     type |-> logTypeOf(complement(user.status)), ip |-> ip,
     location |-> geo.location, locationError |-> geo.locationError]

\* Lines 184-203: getGeolocation resolved or rejected; build newLog and call
\* api.addLog.
checkInGeoReturns(s, i, geo) ==
    /\ i \in 1..Len(toggles[s])
    /\ toggles[s][i].pc = "getGeolocation"
    /\ LET fr == toggles[s][i]
           newLog == newLogOf(fr.user, fr.ip, geo, now)
       IN toggles' = [toggles EXCEPT ![s][i].pc = "addLog",
                                     ![s][i].newLog = newLog]
    /\ UNCHANGED <<storeVars, now, reactVars, result, loginCall, loadCall,
                   adminCalls, adminOutcome, histVars>>

\* simulateDelay: the timer of a call made at clock reading t fires at a
\* later reading.  The toggle's two api calls carry their call time; the
\* delay of the other calls is not observable and is left out.
delayElapsed(t) == now > t

\* Faulty variant: lastCheckIn is refreshed on every toggle.
checkInUpdatedUserAlways(user, newStatus, t) ==
    [user EXCEPT !.status = newStatus, !.lastCheckIn = DateAt(t)]

checkInUpdatedUser(user, newStatus, t) ==
    [user EXCEPT !.status = newStatus,
                 !.lastCheckIn = IF newStatus = "Checked In" THEN DateAt(t) ELSE @]

\* Lines 203-208: api.addLog wrote the entry; build updatedUser and call
\* api.updateUser.
checkInAddLogReturns(s, i) ==
    /\ i \in 1..Len(toggles[s])
    /\ toggles[s][i].pc = "addLog"
    /\ delayElapsed(TimeOf(toggles[s][i].newLog.timestamp))
    /\ LET fr == toggles[s][i]
           r == addLog(logsStore, fr.newLog, now)
           newStatus == complement(fr.user.status)
       IN /\ logsStore' = r.store
          /\ appended' = Append(appended, r.value)
          /\ toggles' = [toggles EXCEPT
                ![s][i].pc = "updateUser",
                ![s][i].createdLog = r.value,
                ![s][i].updatedUser = checkInUpdatedUser(fr.user, newStatus, now),
                ![s][i].updatedAt = DateAt(now)]
    /\ UNCHANGED <<usersStore, now, reactVars, result, loginCall, loadCall,
                   adminCalls, adminOutcome, lastToggle>>

replaceUser(cached, savedUser) ==
    [i \in 1..Len(cached) |->
        IF cached[i].id = savedUser.id THEN savedUser ELSE cached[i]]

\* Faulty variant: there is no finally block.
keepFlag(processing, s) == processing

\* Lines 219-221: finally { setIsProcessing(false) }.
releaseFlag(processing, s) == [processing EXCEPT ![s] = FALSE]

\* Lines 208-221: api.updateUser wrote the user or threw 'User not found.';
\* publish the saved user, return, and clear isProcessing in finally.
checkInUpdateUserReturns(s, i) ==
    /\ i \in 1..Len(toggles[s])
    /\ toggles[s][i].pc = "updateUser"
    /\ delayElapsed(TimeOf(toggles[s][i].updatedAt))
    /\ LET fr == toggles[s][i]
           r == updateUser(usersStore, fr.updatedUser)
           savedUser == r.value
       IN IF r.err = NoError
          THEN /\ usersStore' = r.store
               /\ users' = [users EXCEPT ![s] = replaceUser(@, savedUser)]
               /\ logs' = [logs EXCEPT ![s] = <<fr.createdLog>> \o @]
               /\ loggedInUser' = [loggedInUser EXCEPT ![s] = savedUser]
               /\ sessionStore' = [sessionStore EXCEPT ![s] = stringifyUser(savedUser)]
               /\ result' = [result EXCEPT ![s] =
                      [success |-> TRUE,
                       message |-> IF fr.newLog.type = "in"
                                   THEN "Successfully Checked in!"
                                   ELSE "Successfully Checked out!"]]
               /\ lastToggle' = [lastToggle EXCEPT ![s] =
                      [before |-> fr.user, after |-> savedUser]]
          ELSE /\ result' = [result EXCEPT ![s] =
                      [success |-> FALSE,
                       message |-> "Check-in process failed. Please try again."]]
               /\ UNCHANGED <<usersStore, users, logs, loggedInUser,
                              sessionStore, lastToggle>>
    /\ isProcessing' = releaseFlag(isProcessing, s)
    /\ toggles' = [toggles EXCEPT ![s] = RemoveAt(@, i)]
    /\ UNCHANGED <<logsStore, now, isLoading, loginError, loginCall, loadCall,
                   adminCalls, adminOutcome, appended>>

\* Lines 203-221: the api call the toggle awaits rejects after its delay
\* because localStorage threw (JSON.parse of a damaged value, setItem over
\* quota) before anything was written; the catch block returns the generic
\* failure and finally clears isProcessing.
checkInStoreThrows(s, i) ==
    /\ i \in 1..Len(toggles[s])
    /\ \/ /\ toggles[s][i].pc = "addLog"
          /\ delayElapsed(TimeOf(toggles[s][i].newLog.timestamp))
       \/ /\ toggles[s][i].pc = "updateUser"
          /\ delayElapsed(TimeOf(toggles[s][i].updatedAt))
    /\ result' = [result EXCEPT ![s] =
           [success |-> FALSE,
            message |-> "Check-in process failed. Please try again."]]
    /\ isProcessing' = releaseFlag(isProcessing, s)
    /\ toggles' = [toggles EXCEPT ![s] = RemoveAt(@, i)]
    /\ UNCHANGED <<storeVars, now, loggedInUser, sessionStore, isLoading,
                   loginError, users, logs, loginCall, loadCall, adminCalls,
                   adminOutcome, histVars>>

-----------------------------------------------------------------------------
(* App: user management handlers of the admin dashboard *)

\* The dashboard is rendered for a logged-in Admin and lists the Employees
\* of the React state users.
IsAdmin(s) ==
    /\ ~isLoading[s]
    /\ loggedInUser[s] # NoUser
    /\ loggedInUser[s].role = "Admin"

Listed(s) == {users[s][i] : i \in {j \in 1..Len(users[s]) : users[s][j].role = "Employee"}}

Editable(s) == {v \in Listed(s) : v.id \in EditableIds}

\* The edit form submits the listed user with the edited username and the
\* password field (blank keeps the password).
EditForm(u, form) ==
    [f \in DOMAIN u \cup {"password"} |->
        IF f = "password" THEN form.password
        ELSE IF f = "username" /\ form.username # Unedited THEN form.username
        ELSE u[f]]

EditedUsers(s, forms) == {EditForm(u, form) : u \in Editable(s), form \in forms}

startAdminCall(s, op, arg) ==
    /\ IsAdmin(s)
    /\ Len(adminCalls[s]) < MaxAdminCalls
    /\ adminCalls' = [adminCalls EXCEPT ![s] = Append(@, [op |-> op, arg |-> arg])]
    /\ UNCHANGED <<storeVars, now, reactVars, toggles, result, loginCall,
                   loadCall, adminOutcome, histVars>>

handleAddUser(s, user) == startAdminCall(s, "addUser", user)

handleUpdateUser(s, updatedUser) == startAdminCall(s, "updateUser", updatedUser)

handleDeleteUser(s, userId) == startAdminCall(s, "deleteUser", [id |-> userId])

\* The calls of one tab return in the order they were made (equal timers).
handleAddUserReturns(s) ==
    /\ adminCalls[s] # <<>>
    /\ Head(adminCalls[s]).op = "addUser"
    /\ LET r == addUser(usersStore, Head(adminCalls[s]).arg)
       IN /\ adminOutcome' = [adminOutcome EXCEPT ![s] = r.err]
          /\ IF r.err = NoError
             THEN /\ usersStore' = r.store
                  /\ users' = [users EXCEPT ![s] = Append(@, r.value)]
             ELSE UNCHANGED <<usersStore, users>>
    /\ adminCalls' = [adminCalls EXCEPT ![s] = Tail(@)]
    /\ UNCHANGED <<logsStore, now, loggedInUser, sessionStore, isProcessing,
                   isLoading, loginError, logs, toggles, result, loginCall,
                   loadCall, histVars>>

handleUpdateUserReturns(s) ==
    /\ adminCalls[s] # <<>>
    /\ Head(adminCalls[s]).op = "updateUser"
    /\ LET r == updateUser(usersStore, Head(adminCalls[s]).arg)
       IN /\ adminOutcome' = [adminOutcome EXCEPT ![s] = r.err]
          /\ IF r.err = NoError
             THEN /\ usersStore' = r.store
                  /\ users' = [users EXCEPT ![s] = replaceUser(@, r.value)]
             ELSE UNCHANGED <<usersStore, users>>
    /\ adminCalls' = [adminCalls EXCEPT ![s] = Tail(@)]
    /\ UNCHANGED <<logsStore, now, loggedInUser, sessionStore, isProcessing,
                   isLoading, loginError, logs, toggles, result, loginCall,
                   loadCall, histVars>>

handleDeleteUserReturns(s) ==
    /\ adminCalls[s] # <<>>
    /\ Head(adminCalls[s]).op = "deleteUser"
    /\ LET userId == Head(adminCalls[s]).arg.id
       IN /\ usersStore' = deleteUser(usersStore, userId)
          /\ users' = [users EXCEPT ![s] = SelectSeq(@, LAMBDA u : u.id # userId)]
    /\ adminOutcome' = [adminOutcome EXCEPT ![s] = NoError]
    /\ adminCalls' = [adminCalls EXCEPT ![s] = Tail(@)]
    /\ UNCHANGED <<logsStore, now, loggedInUser, sessionStore, isProcessing,
                   isLoading, loginError, logs, toggles, result, loginCall,
                   loadCall, histVars>>

-----------------------------------------------------------------------------

OneIp == {"203.0.113.7"}
OneGeo == {[location |-> Position, locationError |-> Undefined]}

\* An employee tab and an administrator tab that edits and deletes users.
Employee == "s1"
Admin == "s2"

Next ==
    \/ Tick
    \/ \E s \in {Employee, Admin} : loadGetUsersReturns(s)
    \/ \E s \in {Employee, Admin} : loadGetLogsReturns(s)
    \/ \E cred \in Credentials : handleLogin(Employee, cred)
    \/ handleLogin(Admin, AdminCredentials)
    \/ \E s \in {Employee, Admin} : loginReturns(s)
    \/ handleCheckIn(Employee)
    \/ \E i \in 1..MaxLogs, ip \in OneIp : checkInIpReturns(Employee, i, ip)
    \/ \E i \in 1..MaxLogs, geo \in OneGeo : checkInGeoReturns(Employee, i, geo)
    \/ \E i \in 1..MaxLogs : checkInAddLogReturns(Employee, i)
    \/ \E i \in 1..MaxLogs : checkInUpdateUserReturns(Employee, i)
    \/ \E u \in EditedUsers(Admin, {Rename, NewPassword}) : handleUpdateUser(Admin, u)
    \/ \E u \in Editable(Admin) : handleDeleteUser(Admin, u.id)
    \/ handleUpdateUserReturns(Admin)
    \/ handleDeleteUserReturns(Admin)

Spec == Init /\ [][Next]_vars

\* The same two tabs with every handler, the administrator adding a user
\* and resubmitting listed users unedited.
NextAll ==
    \/ Tick
    \/ \E s \in {Employee, Admin} : loadGetUsersReturns(s)
    \/ \E s \in {Employee, Admin} : loadGetLogsReturns(s)
    \/ \E cred \in Credentials : handleLogin(Employee, cred)
    \/ handleLogin(Admin, AdminCredentials)
    \/ \E s \in {Employee, Admin} : loginReturns(s)
    \/ handleCheckIn(Employee)
    \/ \E i \in 1..MaxLogs, ip \in OneIp : checkInIpReturns(Employee, i, ip)
    \/ \E i \in 1..MaxLogs, geo \in OneGeo : checkInGeoReturns(Employee, i, geo)
    \/ \E i \in 1..MaxLogs : checkInAddLogReturns(Employee, i)
    \/ \E i \in 1..MaxLogs : checkInUpdateUserReturns(Employee, i)
    \/ \E u \in {v \in NewUsers : v.id = "emp-4"} : handleAddUser(Admin, u)
    \/ \E u \in EditedUsers(Admin, {Resubmit}) : handleUpdateUser(Admin, u)
    \/ \E u \in Editable(Admin) : handleDeleteUser(Admin, u.id)
    \/ handleAddUserReturns(Admin)
    \/ handleUpdateUserReturns(Admin)
    \/ handleDeleteUserReturns(Admin)

SpecAll == Init /\ [][NextAll]_vars

\* Two administrator tabs that only add users.
NextAddUser ==
    \/ \E s \in Sessions : loadGetUsersReturns(s)
    \/ \E s \in Sessions : loadGetLogsReturns(s)
    \/ \E s \in Sessions : handleLogin(s, AdminCredentials)
    \/ \E s \in Sessions : loginReturns(s)
    \/ \E s \in Sessions, u \in NewUsers : handleAddUser(s, u)
    \/ \E s \in Sessions : handleAddUserReturns(s)

SpecAddUser == Init /\ [][NextAddUser]_vars

\* Two employee tabs of the same user; the second one can be reloaded.
NextTabs ==
    \/ Tick
    \/ Reload("s2")
    \/ \E s \in Sessions : loadGetUsersReturns(s)
    \/ \E s \in Sessions : loadGetLogsReturns(s)
    \/ \E s \in Sessions : handleLogin(s, AliceCredentials)
    \/ \E s \in Sessions : loginReturns(s)
    \/ \E s \in Sessions : handleCheckIn(s)
    \/ \E s \in Sessions, i \in 1..MaxLogs, ip \in OneIp : checkInIpReturns(s, i, ip)
    \/ \E s \in Sessions, i \in 1..MaxLogs, geo \in OneGeo : checkInGeoReturns(s, i, geo)
    \/ \E s \in Sessions, i \in 1..MaxLogs : checkInAddLogReturns(s, i)
    \/ \E s \in Sessions, i \in 1..MaxLogs : checkInUpdateUserReturns(s, i)

SpecTabs == Init /\ [][NextTabs]_vars

\* An employee tab that can be reloaded and an administrator tab that
\* deletes the employee.
NextSession ==
    \/ Tick
    \/ Reload(Employee)
    \/ \E s \in {Employee, Admin} : loadGetUsersReturns(s)
    \/ \E s \in {Employee, Admin} : loadGetLogsReturns(s)
    \/ handleLogin(Employee, AliceCredentials)
    \/ handleLogin(Admin, AdminCredentials)
    \/ \E s \in {Employee, Admin} : loginReturns(s)
    \/ handleCheckIn(Employee)
    \/ \E i \in 1..MaxLogs, ip \in OneIp : checkInIpReturns(Employee, i, ip)
    \/ \E i \in 1..MaxLogs, geo \in OneGeo : checkInGeoReturns(Employee, i, geo)
    \/ \E i \in 1..MaxLogs : checkInAddLogReturns(Employee, i)
    \/ \E i \in 1..MaxLogs : checkInUpdateUserReturns(Employee, i)
    \/ \E u \in Editable(Admin) : handleDeleteUser(Admin, u.id)
    \/ handleDeleteUserReturns(Admin)

SpecSession == Init /\ [][NextSession]_vars

\* An employee tab that logs in and out with any credentials and an
\* administrator tab that renames a user or sets its password.
NextLogin ==
    \/ \E s \in {Employee, Admin} : loadGetUsersReturns(s)
    \/ \E s \in {Employee, Admin} : loadGetLogsReturns(s)
    \/ \E cred \in LoginCredentials : handleLogin(Employee, cred)
    \/ handleLogin(Admin, AdminCredentials)
    \/ \E s \in {Employee, Admin} : loginReturns(s)
    \/ handleLogout(Employee)
    \/ \E u \in EditedUsers(Admin, {Rename, NewPassword}) : handleUpdateUser(Admin, u)
    \/ handleUpdateUserReturns(Admin)

SpecLogin == Init /\ [][NextLogin]_vars

\* One employee tab that toggles and can log out, log in again and reload
\* at any moment.
NextLogout ==
    \/ Tick
    \/ Reload(Employee)
    \/ loadGetUsersReturns(Employee)
    \/ loadGetLogsReturns(Employee)
    \/ \E cred \in Credentials : handleLogin(Employee, cred)
    \/ loginReturns(Employee)
    \/ handleLogout(Employee)
    \/ handleCheckIn(Employee)
    \/ \E i \in 1..MaxLogs, ip \in OneIp : checkInIpReturns(Employee, i, ip)
    \/ \E i \in 1..MaxLogs, geo \in OneGeo : checkInGeoReturns(Employee, i, geo)
    \/ \E i \in 1..MaxLogs : checkInAddLogReturns(Employee, i)
    \/ \E i \in 1..MaxLogs : checkInUpdateUserReturns(Employee, i)

SpecLogout == Init /\ [][NextLogout]_vars

\* One employee tab whose collaborators succeed or fail.
NextCollab ==
    \/ Tick
    \/ loadGetUsersReturns(Employee)
    \/ loadGetLogsReturns(Employee)
    \/ handleLogin(Employee, AliceCredentials)
    \/ loginReturns(Employee)
    \/ handleCheckIn(Employee)
    \/ \E i \in 1..MaxLogs, ip \in IpOutcomes : checkInIpReturns(Employee, i, ip)
    \/ \E i \in 1..MaxLogs, geo \in GeoOutcomes : checkInGeoReturns(Employee, i, geo)
    \/ \E i \in 1..MaxLogs : checkInAddLogReturns(Employee, i)
    \/ \E i \in 1..MaxLogs : checkInUpdateUserReturns(Employee, i)

SpecCollab == Init /\ [][NextCollab]_vars

\* Two tabs, each used by the employee (toggling, one toggle at a time) or
\* by the administrator (adding a user of its own), with their calls in
\* flight at the same time.
NextAppend ==
    \/ Tick
    \/ \E s \in Sessions : loadGetUsersReturns(s)
    \/ \E s \in Sessions : loadGetLogsReturns(s)
    \/ \E s \in Sessions, cred \in {AliceCredentials, AdminCredentials} :
           handleLogin(s, cred)
    \/ \E s \in Sessions : loginReturns(s)
    \/ \E s \in Sessions :
           ~IsAdmin(s) /\ ~guardRejects(isProcessing[s], loggedInUser[s]) /\ handleCheckIn(s)
    \/ \E s \in Sessions, i \in 1..MaxLogs, ip \in OneIp : checkInIpReturns(s, i, ip)
    \/ \E s \in Sessions, i \in 1..MaxLogs, geo \in OneGeo : checkInGeoReturns(s, i, geo)
    \/ \E s \in Sessions, i \in 1..MaxLogs : checkInAddLogReturns(s, i)
    \/ \E s \in Sessions, i \in 1..MaxLogs : checkInUpdateUserReturns(s, i)
    \/ \E s \in Sessions : handleAddUser(s, DistinctNewUsers[s])
    \/ \E s \in Sessions : handleAddUserReturns(s)

SpecAppend == Init /\ [][NextAppend]_vars

\* Clock readings a toggle frame still needs after reading t: simulateDelay
\* of api.addLog and of api.updateUser each end at a later reading than
\* the one the call was made at.
TicksNeeded(fr, t) ==
    IF fr.pc = "updateUser"
    THEN (IF t > TimeOf(fr.updatedAt) THEN 0 ELSE 1)
    ELSE IF fr.pc = "addLog"
    THEN (IF t > TimeOf(fr.newLog.timestamp) THEN 1 ELSE 2)
    ELSE 2

\* The bound on the clock: the model's clock stops at MaxClock, the
\* program's does not, so the clock only advances, and a toggle only
\* starts, when the timers of every toggle in flight can still fire.
ClockRoom(t) ==
    \A s \in Sessions : \A i \in 1..Len(toggles[s]) :
        t + TicksNeeded(toggles[s][i], t) <= MaxClock

TickInTime == ClockRoom(now + 1) /\ Tick

\* One employee tab whose collaborators succeed or fail and whose store
\* calls return or throw; the employee may log out while a toggle is in
\* flight.
StoreCallSettles(s) ==
    \E i \in 1..MaxLogs :
        \/ checkInAddLogReturns(s, i)
        \/ checkInUpdateUserReturns(s, i)
        \/ checkInStoreThrows(s, i)

NextRelease ==
    \/ TickInTime
    \/ loadGetUsersReturns(Employee)
    \/ loadGetLogsReturns(Employee)
    \/ handleLogin(Employee, AliceCredentials)
    \/ loginReturns(Employee)
    \/ handleLogout(Employee)
    \/ /\ guardRejects(isProcessing[Employee], loggedInUser[Employee])
          \/ now + 2 <= MaxClock
       /\ handleCheckIn(Employee)
    \/ \E i \in 1..MaxLogs, ip \in IpOutcomes : checkInIpReturns(Employee, i, ip)
    \/ \E i \in 1..MaxLogs, geo \in GeoOutcomes : checkInGeoReturns(Employee, i, geo)
    \/ StoreCallSettles(Employee)

\* Timers fire and every collaborator and store call settles: the promise
\* of fetch, of getCurrentPosition and of each api call is eventually
\* resolved or rejected.  Nothing is assumed of what the user does.
CallsSettle ==
    /\ WF_vars(TickInTime)
    /\ WF_vars(\E i \in 1..MaxLogs, ip \in IpOutcomes :
                   checkInIpReturns(Employee, i, ip))
    /\ WF_vars(\E i \in 1..MaxLogs, geo \in GeoOutcomes :
                   checkInGeoReturns(Employee, i, geo))
    /\ WF_vars(StoreCallSettles(Employee))

SpecRelease == Init /\ [][NextRelease]_vars /\ CallsSettle

-----------------------------------------------------------------------------
(* Properties *)

StoredWithId(stored, id) == {k \in 1..Len(stored) : stored[k].id = id}

\* Toggle i of tab s returns success in this step.
ToggleSucceeds(s, i) == checkInUpdateUserReturns(s, i) /\ result'[s].success

BothStatuses == {"Checked In", "Checked Out"}

\* C1: a successful toggle of an authenticated user with status S leaves the
\* stored record and the session identity with the other status, and a
\* second successful toggle on the identity the first one published returns
\* the status to S.
C1_ToggleComplement ==
    [][\A s \in Sessions, i \in 1..MaxLogs :
        ToggleSucceeds(s, i) =>
            LET before == toggles[s][i].user
                S == before.status
            IN /\ before # NoUser
               /\ loggedInUser'[s].id = before.id
               /\ loggedInUser'[s].status \in BothStatuses \ {S}
               /\ sessionStore'[s].status = loggedInUser'[s].status
               /\ StoredWithId(usersStore', before.id) # {}
               /\ \A k \in StoredWithId(usersStore', before.id) :
                      usersStore'[k].status \in BothStatuses \ {S}
               /\ (lastToggle[s] # Null /\ before = lastToggle[s].after)
                      => loggedInUser'[s].status = lastToggle[s].before.status
    ]_vars

\* Two successful toggles in sequence have happened in a tab: the second
\* started from the identity the first published and returned success.
C1_Witness ==
    \E s \in Sessions :
        /\ result[s].success
        /\ lastToggle[s] # Null
        /\ lastToggle[s].before.status = "Checked In"
        /\ lastToggle[s].after.status = "Checked Out"
        /\ loggedInUser[s] = lastToggle[s].after
        /\ \E k \in 1..Len(usersStore) :
               usersStore[k].id = loggedInUser[s].id /\ usersStore[k].status = "Checked Out"

\* C2: handleCheckIn invoked while a toggle of the tab is in flight, or with
\* nobody logged in, returns a non-success result and changes nothing else;
\* so a tab never has two toggles past the guard.
C2_ToggleGuard ==
    /\ [](\A s \in Sessions : Len(toggles[s]) <= 1)
    /\ [](\A s \in Sessions : Len(toggles[s]) = 1 => isProcessing[s])
    /\ [][\A s \in Sessions :
            (handleCheckIn(s) /\ (Len(toggles[s]) > 0 \/ loggedInUser[s] = NoUser)) =>
                /\ ~result'[s].success
                /\ result'[s] # NoResult
                /\ UNCHANGED <<usersStore, logsStore, loggedInUser, sessionStore,
                               toggles, isProcessing, users, logs>>
       ]_vars

\* A toggle is in flight in a tab whose last handleCheckIn was rejected.
C2_Witness ==
    \E s \in Sessions :
        /\ Len(toggles[s]) = 1
        /\ loggedInUser[s] # NoUser
        /\ ~result[s].success
        /\ result[s] # NoResult

UsernamesUnique(stored) ==
    \A j, k \in 1..Len(stored) :
        j # k => stored[j].username # stored[k].username

HasUsername(stored, username) ==
    \E k \in 1..Len(stored) : stored[k].username = username

\* C3: under any sequence and interleaving of addUser calls no two stored
\* users share a username, and an addUser whose username is already stored
\* fails with the duplicate-username error and leaves the collection (and
\* the caller's list) unchanged; any other addUser appends its user.
C3_AddUserUnique ==
    /\ [] UsernamesUnique(usersStore)
    /\ [][\A s \in Sessions :
            handleAddUserReturns(s) =>
                LET newUser == Head(adminCalls[s]).arg
                IN IF HasUsername(usersStore, newUser.username)
                   THEN /\ adminOutcome'[s] = "Username already exists."
                        /\ usersStore' = usersStore
                        /\ users'[s] = users[s]
                   ELSE /\ adminOutcome'[s] = NoError
                        /\ Len(usersStore') = Len(usersStore) + 1
                        /\ usersStore'[Len(usersStore')].username = newUser.username
                        /\ SubSeq(usersStore', 1, Len(usersStore)) = usersStore
       ]_vars

\* One tab added dave; the other tab's addUser of the same username, in
\* flight at the same time, was refused.
C3_Witness ==
    \E s, t \in Sessions :
        /\ s # t
        /\ adminOutcome[s] = "Username already exists."
        /\ adminOutcome[t] = NoError
        /\ \E k \in 1..Len(users[t]) : users[t][k].username = "dave"
        /\ ~\E k \in 1..Len(users[s]) : users[s][k].username = "dave"
        /\ Cardinality({k \in 1..Len(usersStore) : usersStore[k].username = "dave"}) = 1

\* C4: no two stored users ever share a username.
C4_UsernameUniqueness == UsernamesUnique(usersStore)

UpdateKeepsOrSets(before, after, updatedUser) ==
    /\ Len(after) = Len(before)
    /\ \A k \in 1..Len(before) :
          /\ after[k].id = before[k].id
          /\ after[k].password =
                IF /\ before[k].id = updatedUser.id
                   /\ "password" \in DOMAIN updatedUser
                   /\ updatedUser.password # ""
                THEN updatedUser.password
                ELSE before[k].password
          /\ before[k].password # "" => after[k].password # ""

\* C5: an updateUser with an empty or absent password leaves every stored
\* password as it was, one with a non-empty password Q sets the password of
\* the records of that id to Q and no other; a non-empty password never
\* becomes empty.
C5_PasswordRetention ==
    [][\A s \in Sessions :
        /\ (handleUpdateUserReturns(s) /\ adminOutcome'[s] = NoError) =>
               UpdateKeepsOrSets(usersStore, usersStore', Head(adminCalls[s]).arg)
        /\ \A i \in 1..MaxLogs :
               ToggleSucceeds(s, i) =>
                   /\ "password" \notin DOMAIN toggles[s][i].updatedUser
                   /\ UpdateKeepsOrSets(usersStore, usersStore', toggles[s][i].updatedUser)
    ]_vars

\* The administrator set a new password and afterwards renamed the user
\* with the password field left blank; the toggling employee's update (no
\* password field) has also been written.
C5_Witness ==
    \E k \in 1..Len(usersStore) :
        /\ usersStore[k].id = "emp-1"
        /\ usersStore[k].password = "pw2"
        /\ usersStore[k].username = "bob"
        /\ usersStore[k].status = "Checked In"

NoPassword(u) == "password" \notin DOMAIN u

\* C6: every user value returned by login, getUsers, addUser and updateUser,
\* and so every session identity (in memory and in sessionStorage) and every
\* listed user, has no password field.
C6_Sanitization ==
    \A s \in Sessions :
        /\ loggedInUser[s] # NoUser => NoPassword(loggedInUser[s])
        /\ sessionStore[s] # Null => NoPassword(sessionStore[s])
        /\ \A k \in 1..Len(users[s]) : NoPassword(users[s][k])
        /\ \A k \in 1..Len(loadCall[s].loadedUsers) : NoPassword(loadCall[s].loadedUsers[k])
        /\ \A i \in 1..Len(toggles[s]) : NoPassword(toggles[s][i].user)

\* login, getUsers, addUser and the toggle's updateUser have returned.
C6_Witness ==
    /\ loggedInUser[Employee] # NoUser
    /\ result[Employee].success
    /\ sessionStore[Employee] # Null
    /\ \E k \in 1..Len(users[Admin]) : users[Admin][k].id = "emp-4"
    /\ \E k \in 1..Len(users[Admin]) :
           users[Admin][k].id = "emp-1" /\ users[Admin][k].status = "Checked In"
    /\ \E k \in 1..Len(usersStore) :
           usersStore[k].id = "emp-1" /\ usersStore[k].status = "Checked Out"

Reverse(sq) == [k \in 1..Len(sq) |-> sq[Len(sq) + 1 - k]]

SameEntries(returned, expected) ==
    /\ Len(returned) = Len(expected)
    /\ \A k \in 1..Len(returned) :
          /\ "date" \in DOMAIN returned[k].timestamp
          /\ stringifyLog(returned[k]) = stringifyLog(expected[k])

\* C7: after N addLog calls have returned, the stored collection and what
\* getLogs returns are exactly those N entries, the most recently appended
\* first, whatever their timestamps are.
C7_LogOrder ==
    /\ [] SameEntries(getLogs(logsStore), Reverse(appended))
    /\ [][\A s \in Sessions :
            loadGetLogsReturns(s) => SameEntries(logs'[s], Reverse(appended))
       ]_vars

\* A freshly loaded tab lists two entries and the first one, appended
\* last, has the earlier timestamp.
C7_Witness ==
    \E s \in Sessions :
        /\ loadCall[s].pc = "done"
        /\ toggles[s] = <<>>
        /\ result[s] = NoResult
        /\ Len(appended) = 2
        /\ Len(logs[s]) = 2
        /\ logs[s][1].id = appended[2].id
        /\ TimeOf(logs[s][1].timestamp) < TimeOf(logs[s][2].timestamp)

\* C8: no two stored log entries share an identifier.
C8_LogIdsUnique ==
    \A j, k \in 1..Len(logsStore) :
        j # k => logsStore[j].id # logsStore[k].id

\* C9: a step leaves the stored log entries as they are or prepends one
\* entry to them; deleting a user leaves them as they are.
C9_LogsImmutable ==
    [][/\ \/ logsStore' = logsStore
          \/ /\ Len(logsStore') = Len(logsStore) + 1
             /\ Tail(logsStore') = logsStore
       /\ \A s \in Sessions : handleDeleteUserReturns(s) => logsStore' = logsStore
    ]_vars

\* Two entries of a user who has since been deleted are still stored.
C9_Witness ==
    /\ Len(logsStore) = 2
    /\ \A j \in 1..Len(logsStore) :
           /\ logsStore[j].userId = "emp-1"
           /\ StoredWithId(usersStore, logsStore[j].userId) = {}

HasEarlierCheckIn(id, lastCheckIn) ==
    \E j \in 1..Len(logsStore) :
        /\ logsStore[j].userId = id
        /\ logsStore[j].type = "in"
        /\ TimeOf(logsStore[j].timestamp) < TimeOf(lastCheckIn)

HasId(loadedUsers, id) == \E k \in 1..Len(loadedUsers) : loadedUsers[k].id = id

\* C11: when the start-up load completes, a stored session identity becomes
\* the active session exactly when its id is among the users just loaded;
\* otherwise the stored session is removed and nobody is logged in. With no
\* stored session nobody is logged in either.
C11_Revalidation ==
    [][\A s \in Sessions :
        loadGetLogsReturns(s) =>
            LET stored == sessionStore[s]
                loaded == loadCall[s].loadedUsers
            IN /\ ~isLoading'[s]
               /\ IF stored # Null /\ HasId(loaded, stored.id)
                  THEN /\ loggedInUser'[s] = stored
                       /\ sessionStore'[s] = stored
                  ELSE /\ loggedInUser'[s] = NoUser
                       /\ sessionStore'[s] = Null
    ]_vars

\* The employee had toggled, the administrator deleted the employee, and
\* the reloaded employee tab finished loading with its session discarded.
C11_Witness ==
    /\ loadCall[Employee].pc = "done"
    /\ ~isLoading[Employee]
    /\ loggedInUser[Employee] = NoUser
    /\ sessionStore[Employee] = Null
    /\ StoredWithId(usersStore, "emp-1") = {}
    /\ Len(logsStore) > 0
    /\ ~HasId(users[Employee], "emp-1")

GenericFailure == "Check-in process failed. Please try again."

IsStoredLog(stored, entry) ==
    \E k \in 1..Len(stored) : stored[k] = stringifyLog(entry)

\* C12: a toggle whose log append succeeded and whose user update fails
\* (the user is no longer stored) returns the generic failure; its log
\* entry stays stored, the update writes nothing to Users, the session
\* identity stays the one the toggle started from, and the in-flight flag
\* is cleared.
C12_NoRollback ==
    [][\A s \in Sessions, i \in 1..MaxLogs :
        /\ (checkInUpdateUserReturns(s, i)
              /\ StoredWithId(usersStore, toggles[s][i].user.id) = {}) =>
                ~result'[s].success
        /\ (checkInUpdateUserReturns(s, i) /\ ~result'[s].success) =>
                LET fr == toggles[s][i]
                IN /\ result'[s].message = GenericFailure
                   /\ IsStoredLog(logsStore, fr.createdLog)
                   /\ logsStore' = logsStore
                   /\ usersStore' = usersStore
                   /\ loggedInUser'[s] = fr.user
                   /\ loggedInUser'[s] = loggedInUser[s]
                   /\ sessionStore'[s] = sessionStore[s]
                   /\ sessionStore'[s] = stringifyUser(fr.user)
                   /\ ~isProcessing'[s]
    ]_vars

\* The employee's toggle failed after its entry was written: the entry is
\* stored, the employee is deleted, and the tab still shows the employee
\* logged in and checked out.
C12_Witness ==
    /\ result[Employee] = [success |-> FALSE, message |-> GenericFailure]
    /\ Len(logsStore) = 1
    /\ logsStore[1].userId = "emp-1"
    /\ logsStore[1].type = "in"
    /\ StoredWithId(usersStore, "emp-1") = {}
    /\ loggedInUser[Employee] # NoUser
    /\ loggedInUser[Employee].status = "Checked Out"
    /\ ~isProcessing[Employee]

PatchWins(record, patch) ==
    \A f \in DOMAIN patch \ {"password"} :
        f \in DOMAIN record /\ record[f] = stringifyUser(patch)[f]

\* C13: last write wins. A toggle's updateUser overwrites every field of
\* the stored record with the toggle's own copy, whatever another writer
\* stored since that copy was taken and leaving the other records alone;
\* so (the witness) a completed update of one session can be replaced by
\* the other session's.
C13_LastWriteWins ==
    [][\A s \in Sessions, i \in 1..MaxLogs :
        ToggleSucceeds(s, i) =>
            LET patch == toggles[s][i].updatedUser
            IN /\ Len(usersStore') = Len(usersStore)
               /\ \A k \in 1..Len(usersStore) :
                      IF usersStore[k].id = patch.id
                      THEN PatchWins(usersStore'[k], patch)
                      ELSE usersStore'[k] = usersStore[k]
    ]_vars

\* Both tabs completed a check-in of the same user; the first tab's update
\* (its lastCheckIn) is no longer in the stored record, which holds the
\* second tab's.
C13_Witness ==
    \E s, t \in Sessions :
        /\ s # t
        /\ lastToggle[s] # Null /\ lastToggle[t] # Null
        /\ result[s].success /\ result[t].success
        /\ toggles[s] = <<>> /\ toggles[t] = <<>>
        /\ loggedInUser[s] # NoUser /\ loggedInUser[t] # NoUser
        /\ loggedInUser[s].id = loggedInUser[t].id
        /\ loggedInUser[s].lastCheckIn # loggedInUser[t].lastCheckIn
        /\ \A k \in StoredWithId(usersStore, loggedInUser[s].id) :
               /\ usersStore[k] # stringifyUser(loggedInUser[s])
               /\ [f \in DOMAIN usersStore[k] \ {"password"} |-> usersStore[k][f]]
                      = stringifyUser(loggedInUser[t])

WithUsername(stored, username) ==
    {k \in 1..Len(stored) : stored[k].username = username}

FirstOf(S) == CHOOSE k \in S : \A j \in S : k <= j

\* C14: a login succeeds exactly when the first stored user with the given
\* username has the given password; it then publishes that record without
\* its password as the session identity (in memory and in sessionStorage).
\* Otherwise it reports the invalid-credentials error and the session
\* identity is unchanged. Users and Logs are unchanged either way.
C14_Login ==
    [][\A s \in Sessions :
        loginReturns(s) =>
            LET cred == loginCall[s]
                same == WithUsername(usersStore, cred.username)
            IN /\ usersStore' = usersStore
               /\ logsStore' = logsStore
               /\ IF same # {} /\ usersStore[FirstOf(same)].password = cred.password
                  THEN LET u == usersStore[FirstOf(same)]
                       IN /\ loggedInUser'[s] = [f \in DOMAIN u \ {"password"} |-> u[f]]
                          /\ sessionStore'[s] = loggedInUser'[s]
                          /\ loginError'[s] = NoError
                  ELSE /\ loginError'[s] = "Invalid username or password."
                       /\ loggedInUser'[s] = loggedInUser[s]
                       /\ sessionStore'[s] = sessionStore[s]
                       /\ loggedInUser'[s] = NoUser
    ]_vars

\* After the administrator renamed alice to bob, a login as bob with alice's
\* password succeeded: the first stored bob is the renamed record.
C14_Witness ==
    /\ Cardinality(WithUsername(usersStore, "bob")) = 2
    /\ loggedInUser[Employee] # NoUser
    /\ loggedInUser[Employee].id = "emp-1"
    /\ loggedInUser[Employee].username = "bob"
    /\ sessionStore[Employee] = loggedInUser[Employee]

\* C15: within a toggle the IP lookup completes before geolocation is
\* asked, both have completed before the entry is written to Logs, the
\* entry is in Logs before Users is written, and the session identity is
\* republished only in the step that wrote Users.
C15_StepOrder ==
    /\ [](\A s \in Sessions : \A i \in 1..Len(toggles[s]) :
            LET fr == toggles[s][i]
            IN /\ fr.pc = "getIpAddress" =>
                      fr.ip = "" /\ fr.newLog = Null /\ fr.createdLog = Null
               /\ fr.pc = "getGeolocation" =>
                      fr.ip # "" /\ fr.newLog = Null /\ fr.createdLog = Null
               /\ fr.pc = "addLog" =>
                      /\ fr.ip # "" /\ fr.newLog # Null /\ fr.createdLog = Null
                      /\ fr.newLog.ip = fr.ip
               /\ fr.pc = "updateUser" =>
                      /\ fr.createdLog # Null
                      /\ IsStoredLog(logsStore, fr.createdLog)
               /\ fr.createdLog = Null => loggedInUser[s] = fr.user)
    /\ [][/\ logsStore' # logsStore =>
               \E s \in Sessions, i \in 1..MaxLogs :
                   /\ checkInAddLogReturns(s, i)
                   /\ toggles[s][i].ip # ""
                   /\ toggles[s][i].newLog # Null
                   /\ usersStore' = usersStore
          /\ usersStore' # usersStore =>
               \E s \in Sessions, i \in 1..MaxLogs :
                   /\ checkInUpdateUserReturns(s, i)
                   /\ IsStoredLog(logsStore, toggles[s][i].createdLog)
          /\ \A s \in Sessions :
               (toggles[s] # <<>> /\ (loggedInUser'[s] # loggedInUser[s]
                                       \/ sessionStore'[s] # sessionStore[s])) =>
                   /\ ToggleSucceeds(s, 1)
                   /\ usersStore' # usersStore
                   /\ loggedInUser'[s].status # loggedInUser[s].status
                   /\ sessionStore'[s] = stringifyUser(loggedInUser'[s])
       ]_vars

\* A toggle has run to the end: its entry is stored, the user is written
\* and the identity republished.
C15_Witness ==
    /\ toggles[Employee] = <<>>
    /\ result[Employee].success
    /\ Len(logsStore) = 1
    /\ logsStore[1].ip = "Unavailable"
    /\ loggedInUser[Employee].status = "Checked In"
    /\ \E k \in 1..Len(usersStore) :
           usersStore[k].id = "emp-1" /\ usersStore[k].status = "Checked In"

DeniedReason == "User denied the request for Geolocation."

\* C17: whatever the IP lookup and geolocation return, the toggle goes on:
\* it writes exactly one entry and then updates the user. The entry's ip
\* is what the lookup returned ('Unavailable' when it failed); when
\* geolocation failed the entry has a null location and the failure reason,
\* otherwise the position and no locationError field.
C17_CollaboratorFailures ==
    /\ [](Len(logsStore) = Len(appended))
    /\ [][\A s \in Sessions, i \in 1..MaxLogs :
            /\ \A ip \in IpOutcomes :
                   checkInIpReturns(s, i, ip) =>
                       /\ toggles'[s][i].pc = "getGeolocation"
                       /\ toggles'[s][i].ip = ip
            /\ \A geo \in GeoOutcomes :
                   checkInGeoReturns(s, i, geo) =>
                       /\ toggles'[s][i].pc = "addLog"
                       /\ toggles'[s][i].newLog.ip = toggles[s][i].ip
                       /\ toggles'[s][i].newLog.location = geo.location
                       /\ toggles'[s][i].newLog.locationError = geo.locationError
            /\ checkInAddLogReturns(s, i) =>
                   LET newLog == toggles[s][i].newLog
                       entry == logsStore'[1]
                   IN /\ Len(logsStore') = Len(logsStore) + 1
                      /\ toggles'[s][i].pc = "updateUser"
                      /\ entry.userId = toggles[s][i].user.id
                      /\ entry.ip = newLog.ip
                      /\ entry.location = newLog.location
                      /\ IF newLog.location = Null
                         THEN /\ "locationError" \in DOMAIN entry
                              /\ entry.locationError = newLog.locationError
                              /\ entry.locationError # Undefined
                         ELSE "locationError" \notin DOMAIN entry
            /\ checkInUpdateUserReturns(s, i) =>
                   /\ result'[s].success
                   /\ logsStore' = logsStore
                   /\ Cardinality({k \in 1..Len(logsStore) :
                           logsStore[k] = stringifyLog(toggles[s][i].createdLog)}) = 1
                   /\ \A k \in StoredWithId(usersStore', toggles[s][i].user.id) :
                          usersStore'[k].status # toggles[s][i].user.status
       ]_vars

\* A toggle whose IP lookup and geolocation both failed has succeeded: one
\* entry with the sentinel, no location and the reason; the user is
\* checked in.
C17_Witness ==
    /\ toggles[Employee] = <<>>
    /\ result[Employee] = [success |-> TRUE, message |-> "Successfully Checked in!"]
    /\ Len(logsStore) = 1
    /\ logsStore[1].ip = "Unavailable"
    /\ logsStore[1].location = Null
    /\ "locationError" \in DOMAIN logsStore[1]
    /\ logsStore[1].locationError = DeniedReason
    /\ \E k \in 1..Len(usersStore) :
           usersStore[k].id = "emp-1" /\ usersStore[k].status = "Checked In"

\* C16: every addLog puts its entry in front of everything stored at that
\* moment and every successful addUser puts its user behind everything
\* stored at that moment, also when another call was in flight all along;
\* so every entry an addLog returned and every user a tab has listed is
\* stored.
C16_AtomicAppend ==
    /\ [](/\ Len(logsStore) = Len(appended)
           /\ \A k \in 1..Len(appended) : IsStoredLog(logsStore, appended[k]))
    /\ [](\A s \in Sessions : \A k \in 1..Len(users[s]) :
              HasId(usersStore, users[s][k].id))
    /\ [][\A s \in Sessions :
            /\ \A i \in 1..MaxLogs :
                   checkInAddLogReturns(s, i) =>
                       /\ Len(logsStore') = Len(logsStore) + 1
                       /\ Tail(logsStore') = logsStore
                       /\ logsStore'[1] = stringifyLog(toggles'[s][i].createdLog)
                       /\ usersStore' = usersStore
            /\ (handleAddUserReturns(s)
                  /\ ~HasUsername(usersStore, Head(adminCalls[s]).arg.username)) =>
                       /\ adminOutcome'[s] = NoError
                       /\ Len(usersStore') = Len(usersStore) + 1
                       /\ SubSeq(usersStore', 1, Len(usersStore)) = usersStore
                       /\ usersStore'[Len(usersStore')].id = Head(adminCalls[s]).arg.id
                       /\ logsStore' = logsStore
       ]_vars

\* Two addLog calls were in flight at the same time (the entry written
\* second was built before the first was written) and both entries are
\* stored.
C16_Witness ==
    /\ Len(logsStore) = 2
    /\ Len(appended) = 2
    /\ TimeOf(logsStore[1].timestamp) < logsStore[2].id[2]
    /\ TimeOf(logsStore[2].timestamp) < logsStore[1].id[2]
    /\ \A s \in Sessions : toggles[s] = <<>> /\ result[s].success

\* C18: once nobody is logged in (loggedInUser and sessionStorage both
\* empty, as handleLogout leaves them), the session identity becomes
\* non-empty again only by a login that succeeds.
C18_LogoutFinal ==
    [][\A s \in Sessions :
        (/\ ~isLoading[s]
         /\ loggedInUser[s] = NoUser
         /\ sessionStore[s] = Null
         /\ (loggedInUser'[s] # NoUser \/ sessionStore'[s] # Null)) =>
            loginReturns(s)
    ]_vars

AgreesWith(identity, stored) ==
    /\ StoredWithId(stored, identity.id) # {}
    /\ \A k \in StoredWithId(stored, identity.id) :
           stored[k].status = identity.status

\* C19 as claimed: whenever a user is logged in and no toggle of the tab is
\* in flight, the session identity has the status stored for its id.
C19_SessionAgrees ==
    \A s \in Sessions :
        (loggedInUser[s] # NoUser /\ toggles[s] = <<>>) =>
            \A k \in StoredWithId(usersStore, loggedInUser[s].id) :
                usersStore[k].status = loggedInUser[s].status

\* C19 as amended: the session identity has the stored status at the
\* moment it is published by a successful login or by a successful toggle
\* of that tab; revalidation publishes what sessionStorage holds.
C19_AgreesWhenPublished ==
    [][\A s \in Sessions :
        /\ (loginReturns(s) /\ loggedInUser'[s] # NoUser) =>
               /\ AgreesWith(loggedInUser'[s], usersStore')
               /\ sessionStore'[s] = stringifyUser(loggedInUser'[s])
        /\ \A i \in 1..MaxLogs :
               ToggleSucceeds(s, i) =>
                   /\ AgreesWith(loggedInUser'[s], usersStore')
                   /\ sessionStore'[s] = stringifyUser(loggedInUser'[s])
        /\ (loadGetLogsReturns(s) /\ loggedInUser'[s] # NoUser) =>
               loggedInUser'[s] = sessionStore[s]
    ]_vars

\* One tab has just published the stored status by its toggle while the
\* other tab of the same user, idle, still shows the status it logged in
\* with.
C19_Witness ==
    \E s, t \in Sessions :
        /\ s # t
        /\ result[s].success /\ toggles[s] = <<>> /\ toggles[t] = <<>>
        /\ loggedInUser[s] # NoUser /\ loggedInUser[t] # NoUser
        /\ loggedInUser[s].id = loggedInUser[t].id
        /\ AgreesWith(loggedInUser[s], usersStore)
        /\ ~AgreesWith(loggedInUser[t], usersStore)

EntriesOf(id) == SelectSeq(logsStore, LAMBDA e : e.userId = id)

\* C20 as claimed: in every state the stored entries of each user
\* alternate between 'in' and 'out', and the newest one is 'in' exactly
\* when the user's stored status is Checked In.
C20_LogAlternation ==
    \A id \in {logsStore[k].userId : k \in 1..Len(logsStore)} :
        LET entries == EntriesOf(id)
        IN /\ \A j \in 1..(Len(entries) - 1) : entries[j].type # entries[j + 1].type
           /\ \A k \in StoredWithId(usersStore, id) :
                  (entries[1].type = "in") <=> (usersStore[k].status = "Checked In")

\* C20 as amended: the entry a toggle appends is 'in' exactly when the
\* toggle started from a Checked Out identity; when the toggle succeeds
\* the stored status is Checked In exactly when its entry is 'in'; and a
\* successful toggle that started from the identity the tab's previous
\* successful toggle published appends the other kind.
C20_EntryMatchesToggle ==
    [][\A s \in Sessions, i \in 1..MaxLogs :
        /\ checkInAddLogReturns(s, i) =>
               /\ logsStore'[1].userId = toggles[s][i].user.id
               /\ (logsStore'[1].type = "in") <=>
                      (toggles[s][i].user.status = "Checked Out")
               /\ logsStore'[1].type \in {"in", "out"}
        /\ ToggleSucceeds(s, i) =>
               LET fr == toggles[s][i]
               IN /\ IsStoredLog(logsStore', fr.createdLog)
                  /\ fr.createdLog.userId = fr.user.id
                  /\ \A k \in StoredWithId(usersStore', fr.user.id) :
                         (fr.createdLog.type = "in") <=>
                             (usersStore'[k].status = "Checked In")
                  /\ (lastToggle[s] # Null /\ fr.user = lastToggle[s].after) =>
                         ((fr.createdLog.type = "in") <=>
                             (lastToggle[s].before.status = "Checked In"))
    ]_vars

\* Both tabs of one user completed a toggle; each appended an 'in' entry,
\* so the user's two stored entries do not alternate, and the stored
\* status is Checked In.
C20_Witness ==
    /\ \A s \in Sessions : result[s].success /\ toggles[s] = <<>>
    /\ Len(logsStore) = 2
    /\ logsStore[1].userId = logsStore[2].userId
    /\ logsStore[1].type = "in"
    /\ logsStore[2].type = "in"
    /\ \A k \in StoredWithId(usersStore, logsStore[1].userId) :
           usersStore[k].status = "Checked In"

\* A step in which a toggle of tab s finishes: its frame is gone.
ToggleFinishes(s) == Len(toggles'[s]) < Len(toggles[s])

\* Tab s has a toggle past the guard that has not finished.
InFlight(s) == isProcessing[s] \/ toggles[s] # <<>>

\* C21: every toggle of the employee's tab that passed the guard
\* eventually finishes, given that every collaborator and store call
\* settles, and then the in-flight flag is clear; the flag is set exactly
\* while a toggle is in flight; and the step that finishes a toggle, with
\* success or with the generic failure, clears the flag.
C21_FlagReleased ==
    /\ InFlight(Employee) ~> ~InFlight(Employee)
    /\ [](\A s \in Sessions : isProcessing[s] <=> toggles[s] # <<>>)
    /\ [][\A s \in Sessions :
            ToggleFinishes(s) =>
                /\ ~isProcessing'[s]
                /\ \/ result'[s].success
                   \/ result'[s].message = GenericFailure
       ]_vars

\* A toggle that wrote its entry and then failed at api.updateUser has
\* finished: the generic failure was returned and the flag is clear.
C21_Witness ==
    /\ toggles[Employee] = <<>>
    /\ ~isProcessing[Employee]
    /\ result[Employee].message = GenericFailure
    /\ Len(logsStore) = 1
    /\ loggedInUser[Employee] # NoUser

====
